---------------------------- MODULE Spec2Model ----------------------------
(***************************************************************************)
(* A model of the cup-stencil image pipeline (src/unnamed/part_001):       *)
(* the halftone pattern generator and its cache, the tone mapper (binary   *)
(* threshold and sampled halftone), the colour quantizer, and the two      *)
(* size-constrained export ladders driven by renderToCupCanvas.            *)
(*                                                                         *)
(* Pixel buffers are flat RGBA sequences as in ImageData.data; the JS      *)
(* index i is position i+1 of the sequence.  Arithmetic the code does in   *)
(* IEEE-754 doubles is modelled exactly over integers:                     *)
(*   - half-integer block offsets are kept doubled (dx2 = 2*dx);           *)
(*   - luminance is kept in thousandths (299R + 587G + 114B), with the     *)
(*     double rounding of line 274 modelled by DoubleRoundsBelow;          *)
(*   - Math.round(p/q) for p >= 0, q > 0 is (2p + q) \div 2q.              *)
(***************************************************************************)
EXTENDS Integers, Sequences, FiniteSets

VARIABLES
    halftonePatternCache, \* part_001:228  Map<string, Uint16Array>, as a function on its keys
    patternCall,          \* the last getHalftonePattern call made directly: shape and returned sequence
    returned,             \* history: shape <<w, h>> -> the sequence its first call returned
    imageData,            \* the ImageData handed to the tone mapper: [data, width, height]
    toneCall,             \* the last tone-mapper call: its arguments, the buffer before, the writes made
    canvas,               \* canvas id -> the RGBA content of that canvas' bitmap
    request,              \* request id -> the state of that renderToCupCanvas call
    encoder               \* the canvas encoder behind canvas.toBlob

vars == <<halftonePatternCache, patternCall, returned, imageData, toneCall,
          canvas, request, encoder>>

(***************************************************************************)
(* Bounds of the model.                                                    *)
(***************************************************************************)
\* Largest block side requested from getHalftonePattern directly.
MaxDim == 3
\* Number of direct getHalftonePattern calls in one behaviour.
MaxCalls == 3

Min(a, b) == IF a < b THEN a ELSE b
Max(a, b) == IF a > b THEN a ELSE b

\* Math.round(p / q) for integers p >= 0, q > 0: round half up.
RoundDiv(p, q) == (2 * p + q) \div (2 * q)

(***************************************************************************)
(* getHalftonePattern (part_001:228-268)                                   *)
(***************************************************************************)
DigitChars == <<"0", "1", "2", "3", "4", "5", "6", "7", "8", "9">>

\* Number -> decimal string (a template literal's ${n}), as a sequence of characters.
RECURSIVE NumberToString(_)
NumberToString(n) ==
    IF n < 10 THEN <<DigitChars[n + 1]>>
    ELSE NumberToString(n \div 10) \o <<DigitChars[(n % 10) + 1]>>

\* const key = `${width}x${height}`
PatternKey(width, height) == NumberToString(width) \o <<"x">> \o NumberToString(height)

\* An entry index that strides rows by the height.
EntryIndexByHeight(x, y, width, height) == y * height + x

\* index: y * width + x
EntryIndex(x, y, width, height) == y * width + x

\* One entry of the list: dx, dy are half-integers, kept doubled; distance is
\* 4 * (dx*dx + dy*dy), exact in doubles; the angle atan2(dy, dx) is kept as
\* the direction <<dx2, dy2>> it is the angle of.
Entry(x, y, width, height) ==
    LET dx2 == 2 * x - (width - 1)
        dy2 == 2 * y - (height - 1)
    IN  [index    |-> EntryIndex(x, y, width, height),
         distance |-> dx2 * dx2 + dy2 * dy2,
         dx2      |-> dx2,
         dy2      |-> dy2]

\* The two nested loops: y outer, x inner, entries pushed in that order.
Entries(width, height) ==
    [k \in 1..(width * height) |->
        Entry((k - 1) % width, (k - 1) \div width, width, height)]

\* Where atan2(dy, dx) lies: 1 for (-pi, 0), 2 for 0, 3 for (0, pi), 4 for pi.
AngleClass(e) ==
    IF e.dy2 < 0 THEN 1
    ELSE IF e.dy2 > 0 THEN 3
    ELSE IF e.dx2 >= 0 THEN 2
    ELSE 4

\* The sign of a.angle - b.angle.
AngleSign(a, b) ==
    LET ca == AngleClass(a)
        cb == AngleClass(b)
        cross == a.dx2 * b.dy2 - a.dy2 * b.dx2
    IN  IF ca # cb THEN (IF ca < cb THEN -1 ELSE 1)
        ELSE IF cross > 0 THEN -1
        ELSE IF cross < 0 THEN 1
        ELSE 0

\* The sort comparator, as the sign of its result.
Compare(a, b) ==
    IF a.distance = b.distance THEN AngleSign(a, b)
    ELSE IF a.distance < b.distance THEN -1
    ELSE 1

\* Array.prototype.sort is stable: e goes after every element not greater than it.
RECURSIVE InsertEntry(_, _)
InsertEntry(e, sorted) ==
    IF sorted = <<>> THEN <<e>>
    ELSE IF Compare(Head(sorted), e) <= 0
         THEN <<Head(sorted)>> \o InsertEntry(e, Tail(sorted))
         ELSE <<e>> \o sorted

RECURSIVE SortEntries(_)
SortEntries(entries) ==
    IF entries = <<>> THEN <<>>
    ELSE InsertEntry(entries[Len(entries)],
                     SortEntries(SubSeq(entries, 1, Len(entries) - 1)))

\* entries.forEach((entry, idx) => pattern[idx] = entry.index)
IndicesOf(sorted) == [idx \in 1..Len(sorted) |-> sorted[idx].index]

\* The pattern computed on a cache miss.
ComputePattern(width, height) == IndicesOf(SortEntries(Entries(width, height)))

\* halftonePatternCache.set(key, pattern); return pattern
CacheSet(cache, key, pattern) ==
    [pattern |-> pattern,
     cache   |-> [k \in DOMAIN cache \cup {key} |->
                    IF k = key THEN pattern ELSE cache[k]]]

\* The lookup under a key: the cached array, or the computed one, cached.
LookupPattern(cache, key, width, height) ==
    IF key \in DOMAIN cache
    THEN [pattern |-> cache[key], cache |-> cache]
    ELSE CacheSet(cache, key, ComputePattern(width, height))

\* getHalftonePattern: [pattern |-> the returned array, cache |-> the cache after].
GetHalftonePattern(cache, width, height) ==
    LookupPattern(cache, PatternKey(width, height), width, height)

EmptyCache == [k \in {} |-> <<>>]

(***************************************************************************)
(* Optional values (threshold?, sampleDensity?, Blob | null) are sequences *)
(* of length at most one.                                                  *)
(***************************************************************************)
None == <<>>
Some(v) == <<v>>
OrDefault(opt, default) == IF opt = None THEN default ELSE opt[1]

(***************************************************************************)
(* Luminance (part_001:194, 274)                                           *)
(***************************************************************************)
\* 1000 * (0.299 R + 0.587 G + 0.114 B), exact.
GrayMilli(r, g, b) == 299 * r + 587 * g + 114 * b

\* The grey levels v for which the double v*0.299 + v*0.587 + v*0.114, summed
\* left to right, is below v (by one or two ulps): 1*0.299 + 1*0.587 + 1*0.114
\* is 0.9999999999999999, 128*... is 127.99999999999999, 255*... is 255.
GreyRoundsBelow ==
    {1, 2, 4, 8, 11, 13, 16, 22, 26, 27, 32, 39, 44, 51, 52, 54, 57, 59, 61, 64,
     78, 81, 88, 91, 95, 101, 102, 104, 108, 114, 115, 118, 122, 127, 128, 143,
     149, 156, 157, 162, 169, 175, 176, 182, 183, 190, 195, 202, 203, 204, 208,
     209, 216, 223, 225, 228, 230, 235, 236, 239, 241, 244, 249, 251, 254}

\* Whether the double sum for a pixel of integer luminance falls below that
\* integer.  The table is complete for greys (R = G = B); the colours the model
\* draws that are not grey have no integer luminance.
DoubleRoundsBelow(r, g, b) == r = g /\ g = b /\ r \in GreyRoundsBelow

\* The comparison in exact arithmetic: 0.299R + 0.587G + 0.114B >= limit.
GrayAtLeastExact(r, g, b, limit) == GrayMilli(r, g, b) >= 1000 * limit

\* gray >= limit as line 274-275 evaluates it: the double is within 1e-13 of
\* the exact value, so only an exact tie depends on the rounding.
GrayAtLeast(r, g, b, limit) ==
    IF GrayMilli(r, g, b) = 1000 * limit
    THEN ~DoubleRoundsBelow(r, g, b)
    ELSE GrayMilli(r, g, b) > 1000 * limit

\* Math.max(0, Math.min(255, Math.round(threshold))), threshold = 170 by default.
Limit(threshold) == Max(0, Min(255, OrDefault(threshold, 170)))

(***************************************************************************)
(* applyBinaryThreshold (part_001:270-278)                                 *)
(***************************************************************************)
\* The sample at position i after the loop: colour samples take the pixel's
\* value, the alpha sample (every fourth) is not assigned.
BinaryValue(data, i, limit) ==
    LET p == 4 * ((i - 1) \div 4)
    IN  IF i = p + 4 THEN data[i]
        ELSE IF GrayAtLeast(data[p + 1], data[p + 2], data[p + 3], limit) THEN 255 ELSE 0

ApplyBinaryThreshold(data, threshold) ==
    LET limit == Limit(threshold)
    IN  [i \in 1..Len(data) |-> BinaryValue(data, i, limit)]

(***************************************************************************)
(* applySampledMonochrome (part_001:174-226)                               *)
(***************************************************************************)
\* Math.max(2, Math.min(32, Math.round(density))), density = 6 by default.
BlockSize(density) == Max(2, Min(32, OrDefault(density, 6)))

\* The block origins the two loops visit, y outer and x inner, with the
\* block clipped to the buffer.
BlockList(width, height, blockSize) ==
    LET cols == (width + blockSize - 1) \div blockSize
        rows == (height + blockSize - 1) \div blockSize
    IN  [k \in 1..(cols * rows) |->
            LET x == ((k - 1) % cols) * blockSize
                y == ((k - 1) \div cols) * blockSize
            IN  [x |-> x, y |-> y,
                 blockWidth  |-> Min(blockSize, width - x),
                 blockHeight |-> Min(blockSize, height - y)]]

\* JS index of the first sample of the pixel at (px, py).
PixelIdx(px, py, width) == (py * width + px) * 4

\* 1000 * graySum of a block.
RECURSIVE GraySumMilli(_, _, _, _)
GraySumMilli(data, width, block, n) ==
    IF n = 0 THEN 0
    ELSE LET offsetX == (n - 1) % block.blockWidth
             offsetY == (n - 1) \div block.blockWidth
             idx == PixelIdx(block.x + offsetX, block.y + offsetY, width)
         IN  GrayMilli(data[idx + 1], data[idx + 2], data[idx + 3])
             + GraySumMilli(data, width, block, n - 1)

\* normalized = clamp01(grayValue / 255 - bias), bias = (limit - 170) / 255,
\* as the fraction num / den with den = 255000 * pixelCount.
Coverage(data, width, block, limit) ==
    LET pixelCount == block.blockWidth * block.blockHeight
        den == 255000 * pixelCount
        raw == GraySumMilli(data, width, block, pixelCount)
               - 1000 * (limit - 170) * pixelCount
    IN  [num |-> Max(0, Min(den, raw)), den |-> den]

\* Math.round(normalized * pixelCount)
WhitePixels(data, width, block, limit) ==
    LET c == Coverage(data, width, block, limit)
    IN  RoundDiv(c.num, 255000)

\* A fill that whitens one position too many.
FillValueInclusive(order, whitePixels) == IF order <= whitePixels THEN 255 ELSE 0

\* const value = order < whitePixels ? 255 : 0
FillValue(order, whitePixels) == IF order < whitePixels THEN 255 ELSE 0

\* The fill loop of one block, orders 0 .. n-1 done in that order.  st holds
\* the buffer and, per pixel, how many times its colour samples were assigned;
\* an index outside a typed array is not written.
\* One iteration of the fill loop.
FillOne(prev, width, block, pattern, whitePixels, order) ==
    LET localIndex == pattern[order + 1]
        localX == localIndex % block.blockWidth
        localY == localIndex \div block.blockWidth
        idx == PixelIdx(block.x + localX, block.y + localY, width)
        value == FillValue(order, whitePixels)
    IN  IF idx + 3 > Len(prev.data) THEN prev
        ELSE [data   |-> [prev.data EXCEPT ![idx + 1] = value,
                                           ![idx + 2] = value,
                                           ![idx + 3] = value],
              writes |-> [prev.writes EXCEPT ![(idx \div 4) + 1] = @ + 1]]

RECURSIVE FillBlock(_, _, _, _, _, _)
FillBlock(st, width, block, pattern, whitePixels, n) ==
    IF n = 0 THEN st
    ELSE FillOne(FillBlock(st, width, block, pattern, whitePixels, n - 1),
                 width, block, pattern, whitePixels, n - 1)

\* The block loop over blocks 1 .. n.  st carries the buffer, the write
\* counts, the pattern cache and, per block, the whitePixels and pattern used.
BlockDone(prev, block, whitePixels, got, filled) ==
    [data   |-> filled.data,
     writes |-> filled.writes,
     cache  |-> got.cache,
     blocks |-> Append(prev.blocks,
                       [block |-> block, whitePixels |-> whitePixels,
                        pattern |-> got.pattern])]

\* The fill of one block with the whitePixels and the pattern fetched for it.
PaintBlock(prev, width, block, whitePixels, got) ==
    BlockDone(prev, block, whitePixels, got,
              FillBlock([data |-> prev.data, writes |-> prev.writes],
                        width, block, got.pattern, whitePixels,
                        block.blockWidth * block.blockHeight))

\* One iteration of the block loop.
SampleBlock(prev, width, block, limit) ==
    IF block.blockWidth * block.blockHeight = 0 THEN prev
    ELSE PaintBlock(prev, width, block,
                    WhitePixels(prev.data, width, block, limit),
                    GetHalftonePattern(prev.cache, block.blockWidth,
                                       block.blockHeight))

RECURSIVE SampleBlocks(_, _, _, _, _)
SampleBlocks(st, width, blocks, limit, n) ==
    IF n = 0 THEN st
    ELSE SampleBlock(SampleBlocks(st, width, blocks, limit, n - 1),
                     width, blocks[n], limit)

\* applySampledMonochrome on a buffer, with the module's pattern cache.
SampleAll(data, width, height, blocks, limit, cache) ==
    SampleBlocks([data   |-> data,
                  writes |-> [p \in 1..(width * height) |-> 0],
                  cache  |-> cache,
                  blocks |-> <<>>],
                 width, blocks, limit, Len(blocks))

ApplySampledMonochrome(data, width, height, density, threshold, cache) ==
    SampleAll(data, width, height, BlockList(width, height, BlockSize(density)),
              Limit(threshold), cache)

(***************************************************************************)
(* quantizeColors (part_001:165-172)                                       *)
(***************************************************************************)
\* Math.min(255, Math.round(v / divisor) * divisor)
QuantizeSample(v, step) ==
    LET divisor == IF step <= 0 THEN 1 ELSE step
    IN  Min(255, RoundDiv(v, divisor) * divisor)

\* The loop assigns data[i], data[i+1], data[i+2] and steps by 4.
QuantizeColors(data, step) ==
    [i \in 1..Len(data) |->
        IF i % 4 = 0 THEN data[i] ELSE QuantizeSample(data[i], step)]

(***************************************************************************)
(* The export ladders (part_001:93-163) and canvasToBlob (part_001:280-290)*)
(***************************************************************************)
\* part_002:17
MAX_UPLOAD_BYTES == 200 * 1024

\* The lossy ladder's attempts; quality in hundredths.
Attempts ==
    <<[type |-> "image/png",  quality |-> None],
      [type |-> "image/jpeg", quality |-> Some(95)],
      [type |-> "image/jpeg", quality |-> Some(90)],
      [type |-> "image/jpeg", quality |-> Some(85)],
      [type |-> "image/jpeg", quality |-> Some(80)],
      [type |-> "image/jpeg", quality |-> Some(75)],
      [type |-> "image/jpeg", quality |-> Some(70)],
      [type |-> "image/jpeg", quality |-> Some(65)],
      [type |-> "image/jpeg", quality |-> Some(60)],
      [type |-> "image/jpeg", quality |-> Some(55)],
      [type |-> "image/jpeg", quality |-> Some(50)],
      [type |-> "image/jpeg", quality |-> Some(45)],
      [type |-> "image/jpeg", quality |-> Some(40)],
      [type |-> "image/jpeg", quality |-> Some(35)],
      [type |-> "image/jpeg", quality |-> Some(30)]>>

\* The lossless ladder's quantization steps.
Steps == <<0, 8, 16, 24, 32, 40, 48, 64, 80, 96, 112, 128, 160, 192>>

\* canvas.toBlob copies the canvas' bitmap when it is called; the encoding of
\* that copy is delivered later.  The pending encode of a request.
ToBlob(bitmap, type, quality) ==
    Some([bitmap |-> bitmap, type |-> type, quality |-> quality])

\* A budget test that rejects a blob of exactly maxBytes.
WithinBudgetStrict(size, maxBytes) == size < maxBytes

\* A budget test that lets a blob one byte over maxBytes through.
WithinBudgetLoose(size, maxBytes) == size <= maxBytes + 1

\* blob.size <= maxBytes
WithinBudget(size, maxBytes) == size <= maxBytes

\* A candidate that keeps the first blob produced.
KeepFirstCandidate(candidate, blob) == IF candidate = None THEN blob ELSE candidate

\* candidate = blob; (fallback = blob;)
NextCandidate(candidate, blob) == blob

\* A working buffer that shares the base buffer instead of copying it.
WorkingShared(baseData) == [data |-> baseData, shared |-> TRUE]

\* new ImageData(new Uint8ClampedArray(baseImageData.data), ...): a copy.
WorkingCopy(baseData) == [data |-> baseData, shared |-> FALSE]

\* An end of the lossless ladder that falls back to the last blob.
PngFinalFallback(fallback, maxBytes) == fallback

\* return fallback && fallback.size <= maxBytes ? fallback : null
PngFinal(fallback, maxBytes) ==
    IF fallback # None /\ WithinBudget(fallback[1].size, maxBytes) THEN fallback ELSE None

\* The failures of the pipeline, by the taxonomy's names:
\*   part_001:44   no 2d context                        UnsupportedSurface
\*   part_001:87   "PNG still exceeds <maxBytes> KB"    BudgetUnattainable
\*   part_001:125  "cannot export the image"            EncodeExhausted
Returned(rq, blob) ==
    [rq EXCEPT !.pc = "returned", !.result = blob, !.pending = None]

Threw(rq, error) ==
    [rq EXCEPT !.pc = "threw", !.error = error, !.pending = None]

\* One iteration of exportPngWithQuantization's loop up to its await: the
\* working copy, its quantization, putImageData and the toBlob call.
PngAttempt(rq, index) ==
    LET step == Steps[index]
        working == WorkingCopy(rq.baseImageData)
        data == IF step > 0 THEN QuantizeColors(working.data, step) ELSE working.data
    IN  [request |-> [rq EXCEPT !.index = index,
                                !.attempts = @ + 1,
                                !.baseImageData = IF working.shared THEN data ELSE @,
                                !.pending = ToBlob(data, "image/png", None)],
         canvas  |-> data]

\* One iteration of exportWithCompression's loop up to its await: the toBlob
\* call on the canvas as it is now.
LossyAttempt(rq, canvasData, index) ==
    [request |-> [rq EXCEPT !.index = index,
                            !.attempts = @ + 1,
                            !.pending = ToBlob(canvasData, Attempts[index].type,
                                               Attempts[index].quality)],
     canvas  |-> canvasData]

\* exportWithCompression after an await: blob is what canvasToBlob resolved to.
LossyResume(rq, canvasData, blob) ==
    LET candidate == IF blob = None THEN rq.candidate
                     ELSE NextCandidate(rq.candidate, blob)
        rq1 == [rq EXCEPT !.candidate = candidate]
    IN  IF blob # None /\ WithinBudget(blob[1].size, rq.maxBytes)
        THEN [request |-> Returned(rq1, blob), canvas |-> canvasData]
        ELSE IF rq.index < Len(Attempts)
        THEN LossyAttempt(rq1, canvasData, rq.index + 1)
        ELSE IF candidate = None
        THEN [request |-> Threw(rq1, "EncodeExhausted"), canvas |-> canvasData]
        ELSE [request |-> Returned(rq1, candidate), canvas |-> canvasData]

\* exportPngWithQuantization after an await, and renderToCupCanvas' lines
\* 84-87 on its result.
PngResume(rq, canvasData, blob) ==
    LET fallback == IF blob = None THEN rq.candidate
                    ELSE NextCandidate(rq.candidate, blob)
        rq1 == [rq EXCEPT !.candidate = fallback]
    IN  IF blob # None /\ WithinBudget(blob[1].size, rq.maxBytes)
        THEN [request |-> Returned(rq1, blob), canvas |-> canvasData]
        ELSE IF rq.index < Len(Steps)
        THEN PngAttempt(rq1, rq.index + 1)
        ELSE LET result == PngFinal(fallback, rq.maxBytes)
             IN  IF result # None
                 THEN [request |-> Returned(rq1, result), canvas |-> canvasData]
                 ELSE [request |-> Threw(rq1, "BudgetUnattainable"),
                       canvas  |-> canvasData]

(***************************************************************************)
(* Inputs                                                                  *)
(***************************************************************************)
\* The canvas is CUP_WIDTH x CUP_HEIGHT (part_002:15-16), scaled down.
CanvasWidth == 2
CanvasHeight == 2
\* Largest buffer handed to the tone mapper directly.
MaxWidth == 3
MaxHeight == 3
\* Number of tone-mapper calls on one buffer.
MaxToneCalls == 1
\* Largest small blob size the encoder produces.
MaxBlobSize == 3

\* RGBA colours the input images are made of.
Palette ==
    <<<<0, 0, 0, 255>>, <<255, 255, 255, 255>>, <<128, 128, 128, 200>>,
      <<255, 0, 0, 255>>, <<20, 130, 200, 0>>, <<1, 1, 1, 128>>>>

\* A width x height buffer whose pixel (x, y) is colour a*x + b*y + c of the palette.
MakeImage(width, height, a, b, c) ==
    [i \in 1..(width * height * 4) |->
        LET p == (i - 1) \div 4
            x == p % width
            y == p \div width
        IN  Palette[((a * x + b * y + c) % Len(Palette)) + 1][((i - 1) % 4) + 1]]

ToneImages ==
    {[data |-> MakeImage(w, h, a, b, c), width |-> w, height |-> h] :
        w \in 1..MaxWidth, h \in 1..MaxHeight, a \in 0..1, b \in 0..1,
        c \in 0..(Len(Palette) - 1)}

Thresholds == {None, Some(-5), Some(1), Some(128), Some(300)}
Densities == {None, Some(1), Some(3)}

Shapes == ((1..MaxDim) \X (1..MaxDim)) \cup {<<1, 11>>, <<11, 1>>}

RequestIds == {1, 2}
CanvasIds == {1, 2}

ClearCanvas == [i \in 1..(CanvasWidth * CanvasHeight * 4) |-> 0]

\* What clearRect and drawImage leave on the canvas for the images drawn.
DrawnImages == {MakeImage(CanvasWidth, CanvasHeight, 1, 1, c) : c \in {0, 2, 4}}

BlobSizes == (1..MaxBlobSize) \cup {MAX_UPLOAD_BYTES, MAX_UPLOAD_BYTES + 1}

(***************************************************************************)
(* The state before any call                                               *)
(***************************************************************************)
NoPatternCall ==
    [width |-> 0, height |-> 0, pattern |-> <<>>, hit |-> FALSE, calls |-> 0]

NoToneCall ==
    [op |-> "none", threshold |-> None, density |-> None, before |-> <<>>,
     writes |-> <<>>, blocks |-> <<>>, calls |-> 0]

NoImage == [data |-> <<>>, width |-> 0, height |-> 0]

\* A renderToCupCanvas call not yet made: its arguments, and the locals unset.
NewRequest(pc, canvasId, ctxOk, image, options) ==
    [pc |-> pc, canvasId |-> canvasId, ctxOk |-> ctxOk, image |-> image,
     options |-> options, maxBytes |-> 0, ladder |-> "none",
     baseImageData |-> <<>>, baseAtCapture |-> <<>>, index |-> 0,
     candidate |-> None, pending |-> None, result |-> None, error |-> "",
     attempts |-> 0, produced |-> 0, firstFit |-> None, lastProduced |-> None]

NoOptions ==
    [toneMode |-> None, threshold |-> None, sampleDensity |-> None,
     maxBytes |-> None, targetFormat |-> "auto"]

AbsentRequest == NewRequest("absent", 1, TRUE, ClearCanvas, NoOptions)

(***************************************************************************)
(* getHalftonePattern called directly                                      *)
(***************************************************************************)
\* The call's effect: the cache after, and the record of what it returned.
PatternReturned(width, height, got) ==
    /\ halftonePatternCache' = got.cache
    /\ patternCall' = [width |-> width, height |-> height,
                       pattern |-> got.pattern,
                       hit |-> got.cache = halftonePatternCache,
                       calls |-> patternCall.calls + 1]
    /\ returned' = IF <<width, height>> \in DOMAIN returned THEN returned
                   ELSE [s \in DOMAIN returned \cup {<<width, height>>} |->
                           IF s = <<width, height>> THEN got.pattern
                           ELSE returned[s]]

CallGetHalftonePattern(width, height) ==
    /\ patternCall.calls < MaxCalls
    /\ PatternReturned(width, height,
                       GetHalftonePattern(halftonePatternCache, width, height))
    /\ UNCHANGED <<imageData, toneCall, canvas, request, encoder>>

(***************************************************************************)
(* The tone mapper called directly on a buffer                             *)
(***************************************************************************)
CallApplyBinaryThreshold(threshold) ==
    /\ toneCall.calls < MaxToneCalls
    /\ imageData' = [imageData EXCEPT
                        !.data = ApplyBinaryThreshold(imageData.data, threshold)]
    /\ toneCall' = [op |-> "binary", threshold |-> threshold, density |-> None,
                    before |-> imageData.data, writes |-> <<>>, blocks |-> <<>>,
                    calls |-> toneCall.calls + 1]
    /\ UNCHANGED <<halftonePatternCache, patternCall, returned, canvas, request,
                   encoder>>

\* The call's effect: the buffer and the cache after, and the record of the call.
SampledReturned(density, threshold, done) ==
    /\ imageData' = [imageData EXCEPT !.data = done.data]
    /\ halftonePatternCache' = done.cache
    /\ toneCall' = [op |-> "sampled", threshold |-> threshold,
                    density |-> density, before |-> imageData.data,
                    writes |-> done.writes, blocks |-> done.blocks,
                    calls |-> toneCall.calls + 1]

CallApplySampledMonochrome(density, threshold) ==
    /\ toneCall.calls < MaxToneCalls
    /\ SampledReturned(density, threshold,
                       ApplySampledMonochrome(imageData.data, imageData.width,
                                              imageData.height, density, threshold,
                                              halftonePatternCache))
    /\ UNCHANGED <<patternCall, returned, canvas, request, encoder>>

(***************************************************************************)
(* renderToCupCanvas (part_001:37-91)                                      *)
(***************************************************************************)
\* The tone mapping of lines 63-78 on the drawn canvas: the buffer put back
\* and the pattern cache after.
PutBack(done) == [data |-> done.data, cache |-> done.cache]

ToneMap(drawn, options, cache) ==
    LET toneMode == OrDefault(options.toneMode, "binary")
    IN  IF toneMode = "original" THEN [data |-> drawn, cache |-> cache]
        ELSE IF toneMode = "sampled"
        THEN PutBack(ApplySampledMonochrome(drawn, CanvasWidth, CanvasHeight,
                                            options.sampleDensity,
                                            options.threshold, cache))
        ELSE [data  |-> ApplyBinaryThreshold(drawn, options.threshold),
              cache |-> cache]

\* renderToCupCanvas from its call to its first await (or throw): the canvas
\* is sized and cleared, the image drawn (rq.image is what that leaves), tone
\* mapped, read back as baseImageData, and the ladder's first attempt issued.
Started(step, cache) ==
    [request |-> step.request, touched |-> TRUE, canvas |-> step.canvas,
     cache |-> cache]

\* Lines 80-90: baseImageData is read back from the tone-mapped canvas and
\* the ladder chosen by targetFormat issues its first attempt.
StartLadder(rq, toned) ==
    LET maxBytes == OrDefault(rq.options.maxBytes, MAX_UPLOAD_BYTES)
        png == rq.options.targetFormat = "png"
        rq1 == [rq EXCEPT !.pc = "awaiting",
                          !.maxBytes = maxBytes,
                          !.ladder = IF png THEN "png" ELSE "lossy",
                          !.baseImageData = toned.data,
                          !.baseAtCapture = toned.data]
    IN  IF png THEN Started(PngAttempt(rq1, 1), toned.cache)
        ELSE Started(LossyAttempt(rq1, toned.data, 1), toned.cache)

RenderStart(rq, cache) ==
    IF ~rq.ctxOk
    THEN [request |-> Threw(rq, "UnsupportedSurface"), touched |-> FALSE,
          canvas |-> <<>>, cache |-> cache]
    ELSE StartLadder(rq, ToneMap(rq.image, rq.options, cache))

\* The continuation of a request when its awaited canvasToBlob resolves to blob.
Resume(rq, canvasData, blob) ==
    IF rq.ladder = "png" THEN PngResume(rq, canvasData, blob)
    ELSE LossyResume(rq, canvasData, blob)

\* The Blob an encode produces: its size and type, and (to tell blobs apart)
\* the bitmap it encodes, the quality asked and the attempt that made it.
MakeBlob(rq, size) ==
    Some([size |-> size, type |-> rq.pending[1].type,
          quality |-> rq.pending[1].quality, bitmap |-> rq.pending[1].bitmap,
          attempt |-> rq.index])

\* What distinguishes bitmaps to the fixed encoder.
RECURSIVE SampleSum(_, _)
SampleSum(bitmap, n) == IF n = 0 THEN 0 ELSE bitmap[n] + SampleSum(bitmap, n - 1)

ContentClass(bitmap) == SampleSum(bitmap, Len(bitmap)) % 2

\* The sizes (or null) the encoder may resolve a pending encode to: anything,
\* or, for a fixed encoder, what its table gives for that content and type.
EncodeOutcomes(pending) ==
    IF encoder.fixed
    THEN {encoder.table[<<ContentClass(pending.bitmap), pending.type>>]}
    ELSE {None} \cup {Some(size) : size \in BlobSizes}

\* The effect of a request's step on the shared state.
Commit(r, step) ==
    /\ request' = [request EXCEPT ![r] = step.request]
    /\ canvas' = IF step.touched
                 THEN [canvas EXCEPT ![request[r].canvasId] = step.canvas]
                 ELSE canvas
    /\ halftonePatternCache' = step.cache

Render(r) ==
    /\ request[r].pc = "idle"
    /\ Commit(r, RenderStart(request[r], halftonePatternCache))
    /\ UNCHANGED <<patternCall, returned, imageData, toneCall, encoder>>

\* The encode a request awaits completes, and the request runs on to its next
\* await, its return or its throw.  The record of what the encoder produced
\* (produced, lastProduced, firstFit) is kept beside the code's own locals.
\* The record of what the encoder produced for a request.
Seen(rq, blob) ==
    [rq EXCEPT !.produced = IF blob = None THEN @ ELSE @ + 1,
               !.lastProduced = IF blob = None THEN @ ELSE blob,
               !.firstFit = IF blob # None /\ blob[1].size <= rq.maxBytes /\ @ = None
                            THEN blob ELSE @]

\* The blob (or null) a pending encode resolves to.
Resolved(rq, outcome) == IF outcome = None THEN None ELSE MakeBlob(rq, outcome[1])

Resumed(rq, canvasData, blob) == Started(Resume(Seen(rq, blob), canvasData, blob),
                                         halftonePatternCache)

EncodeDone(r) ==
    /\ request[r].pc = "awaiting"
    /\ \E outcome \in EncodeOutcomes(request[r].pending[1]) :
         Commit(r, Resumed(request[r], canvas[request[r].canvasId],
                           Resolved(request[r], outcome)))
    /\ UNCHANGED <<patternCall, returned, imageData, toneCall, encoder>>

(***************************************************************************)
(* Specifications                                                          *)
(***************************************************************************)
AnyEncoder == [fixed |-> FALSE, table |-> <<>>]

RenderOptions ==
    [toneMode : {None, Some("sampled"), Some("original")},
     threshold : {None},
     sampleDensity : {None},
     maxBytes : {None, Some(1), Some(2)},
     targetFormat : {"auto", "png"}]

\* One conversion request, any encoder.
Init ==
    /\ halftonePatternCache = EmptyCache
    /\ patternCall = NoPatternCall
    /\ returned = EmptyCache
    /\ imageData = NoImage
    /\ toneCall = NoToneCall
    /\ canvas = [c \in CanvasIds |-> ClearCanvas]
    /\ encoder = AnyEncoder
    /\ \E image \in DrawnImages, options \in RenderOptions, ctxOk \in BOOLEAN :
         request = [r \in RequestIds |->
                      IF r = 1 THEN NewRequest("idle", 1, ctxOk, image, options)
                      ELSE AbsentRequest]

Next == \E r \in RequestIds : Render(r) \/ EncodeDone(r)

Spec == Init /\ [][Next]_vars

FixedOutcomes == {None, Some(1), Some(3)}

FixedEncoders ==
    {[fixed |-> TRUE, table |-> t] :
        t \in [{0, 1} \X {"image/png", "image/jpeg"} -> FixedOutcomes]}

ConcOptions(targetFormat) ==
    [toneMode |-> Some("sampled"), threshold |-> None, sampleDensity |-> None,
     maxBytes |-> Some(2), targetFormat |-> targetFormat]

\* Two conversion requests of different images, on one canvas or on two, with
\* an encoder whose output is a function of the bitmap and the type.
InitConc ==
    /\ halftonePatternCache = EmptyCache
    /\ patternCall = NoPatternCall
    /\ returned = EmptyCache
    /\ imageData = NoImage
    /\ toneCall = NoToneCall
    /\ canvas = [c \in CanvasIds |-> ClearCanvas]
    /\ encoder \in FixedEncoders
    /\ \E f1 \in {"auto", "png"}, f2 \in {"auto", "png"}, c2 \in CanvasIds :
         request = [r \in RequestIds |->
                      IF r = 1
                      THEN NewRequest("idle", 1, TRUE,
                                      MakeImage(CanvasWidth, CanvasHeight, 1, 1, 0),
                                      ConcOptions(f1))
                      ELSE NewRequest("idle", c2, TRUE,
                                      MakeImage(CanvasWidth, CanvasHeight, 1, 1, 2),
                                      ConcOptions(f2))]

SpecConc == InitConc /\ [][Next]_vars

\* getHalftonePattern called for any shapes.
InitHalftone ==
    /\ halftonePatternCache = EmptyCache
    /\ patternCall = NoPatternCall
    /\ returned = EmptyCache
    /\ imageData = NoImage
    /\ toneCall = NoToneCall
    /\ canvas = [c \in CanvasIds |-> ClearCanvas]
    /\ encoder = AnyEncoder
    /\ request = [r \in RequestIds |-> AbsentRequest]

NextHalftone == \E s \in Shapes : CallGetHalftonePattern(s[1], s[2])

SpecHalftone == InitHalftone /\ [][NextHalftone]_vars

\* The tone mapper called on any buffer.
InitTone ==
    /\ halftonePatternCache = EmptyCache
    /\ patternCall = NoPatternCall
    /\ returned = EmptyCache
    /\ imageData \in ToneImages
    /\ toneCall = NoToneCall
    /\ canvas = [c \in CanvasIds |-> ClearCanvas]
    /\ encoder = AnyEncoder
    /\ request = [r \in RequestIds |-> AbsentRequest]

NextTone ==
    \/ \E threshold \in Thresholds : CallApplyBinaryThreshold(threshold)
    \/ \E density \in Densities, threshold \in Thresholds :
         CallApplySampledMonochrome(density, threshold)

SpecTone == InitTone /\ [][NextTone]_vars

(***************************************************************************)
(* Claims about the halftone pattern generator (SpecHalftone)              *)
(***************************************************************************)
IsPermutation(p, n) ==
    /\ Len(p) = n
    /\ \A k \in 0..(n - 1) : Cardinality({i \in 1..Len(p) : p[i] = k}) = 1

\* C7: every call getHalftonePattern(w, h) returns a sequence of length w*h
\* that is a permutation of 0..w*h-1, and, whatever calls came before, the
\* same sequence that the first call for (w, h) returned.
C7_PatternPermutationAndRepeatable ==
    patternCall.calls > 0 =>
        /\ IsPermutation(patternCall.pattern, patternCall.width * patternCall.height)
        /\ <<patternCall.width, patternCall.height>> \in DOMAIN returned
        /\ patternCall.pattern = returned[<<patternCall.width, patternCall.height>>]

\* A cache hit for the 11x1 shape after the 1x11 shape was cached too.
C7_Witness ==
    /\ patternCall.hit
    /\ patternCall.width = 11 /\ patternCall.height = 1
    /\ <<1, 11>> \in DOMAIN returned
    /\ returned[<<1, 11>>] # patternCall.pattern

(***************************************************************************)
(* Claims about the tone mapper (SpecTone)                                 *)
(***************************************************************************)
\* The colour samples of pixel p (0-based) of a buffer.
Rgb(data, p) == <<data[4 * p + 1], data[4 * p + 2], data[4 * p + 3]>>

\* The blocks of the partition of a width x height buffer into blocks of side bs.
PartitionBlocks(width, height, bs) ==
    {[x |-> bx, y |-> by,
      blockWidth |-> Min(bs, width - bx), blockHeight |-> Min(bs, height - by)] :
        bx \in {v \in 0..(width - 1) : v % bs = 0},
        by \in {v \in 0..(height - 1) : v % bs = 0}}

\* The buffer position (0-based pixel number) of local index li of a block.
BlockPixel(block, li, width) ==
    (block.y + (li \div block.blockWidth)) * width + block.x
        + (li % block.blockWidth)

\* In a sampled buffer, block has its first wp pattern positions white and
\* the others black.
BlockFilled(after, width, block, pattern, wp) ==
    LET pixelCount == block.blockWidth * block.blockHeight
        white == {pattern[i] : i \in 1..wp}
    IN  /\ Cardinality(white) = wp
        /\ \A li \in 0..(pixelCount - 1) :
              Rgb(after, BlockPixel(block, li, width)) =
                  IF li \in white THEN <<255, 255, 255>> ELSE <<0, 0, 0>>
        /\ Cardinality({li \in 0..(pixelCount - 1) :
              Rgb(after, BlockPixel(block, li, width)) = <<255, 255, 255>>}) = wp

C9_BinaryThresholdByLuminance ==
    (toneCall.op = "binary" /\ toneCall.threshold # None
        /\ OrDefault(toneCall.threshold, 170) \in 0..255) =>
        LET after == imageData.data
            before == toneCall.before
            threshold == toneCall.threshold[1]
        IN  /\ Len(after) = Len(before)
            /\ \A p \in 0..(imageData.width * imageData.height - 1) :
                  /\ Rgb(after, p) =
                        IF GrayAtLeastExact(before[4 * p + 1], before[4 * p + 2],
                                            before[4 * p + 3], threshold)
                        THEN <<255, 255, 255>> ELSE <<0, 0, 0>>
                  /\ after[4 * p + 4] = before[4 * p + 4]
            /\ ApplyBinaryThreshold(after, toneCall.threshold) = after

\* What does hold of applyBinaryThreshold, for every threshold: the same with
\* the luminance and the comparison as the doubles of line 274-275 give them.
BinaryThresholdByDoubleLuminance ==
    toneCall.op = "binary" =>
        LET after == imageData.data
            before == toneCall.before
            limit == Limit(toneCall.threshold)
        IN  /\ Len(after) = Len(before)
            /\ \A p \in 0..(imageData.width * imageData.height - 1) :
                  /\ Rgb(after, p) =
                        IF GrayAtLeast(before[4 * p + 1], before[4 * p + 2],
                                       before[4 * p + 3], limit)
                        THEN <<255, 255, 255>> ELSE <<0, 0, 0>>
                  /\ after[4 * p + 4] = before[4 * p + 4]
            /\ ApplyBinaryThreshold(after, toneCall.threshold) = after

(***************************************************************************)
(* Claims about the export ladders (Spec)                                  *)
(***************************************************************************)
Finished(rq) == rq.pc \in {"returned", "threw"}

\* The lossy ladder's order: PNG, then JPEG at 0.95, 0.90, ..., 0.30.
LossyOrderType(index) == IF index = 1 THEN "image/png" ELSE "image/jpeg"
LossyOrderQuality(index) == IF index = 1 THEN None ELSE Some(100 - 5 * (index - 1))

\* The lossless ladder's order of quantization steps.
PngOrder == <<0, 8, 16, 24, 32, 40, 48, 64, 80, 96, 112, 128, 160, 192>>

\* C1 as stated: a returned blob is never larger than maxBytes.
C1_ReturnedWithinBudget ==
    \A r \in RequestIds :
        request[r].pc = "returned" => request[r].result[1].size <= request[r].maxBytes

\* C1, amended: a returned blob is never larger than maxBytes when the
\* target format is png or when some attempt of the lossy ladder produced a
\* blob within maxBytes; otherwise (lossy ladder, no attempt within budget)
\* the returned blob is larger than maxBytes.
C1_ReturnedWithinBudgetUnlessLossyFallback ==
    \A r \in RequestIds :
        request[r].pc = "returned" =>
            (request[r].result[1].size <= request[r].maxBytes
                <=> (request[r].ladder = "png" \/ request[r].firstFit # None))

\* The lossless ladder returns a blob within budget from a later step, after
\* blobs over budget.
C1_Witness ==
    \E r \in RequestIds :
        /\ request[r].pc = "returned"
        /\ request[r].ladder = "png"
        /\ request[r].result[1].attempt > 2
        /\ request[r].produced > 2
        /\ request[r].result[1].size = request[r].maxBytes

\* C2: in the lossy ladder the attempts are issued one at a time in the order
\* PNG, JPEG 0.95, 0.90, ..., 0.30; as soon as an attempt produces a blob of
\* size <= maxBytes the request returns that blob and issues no further
\* attempt (so a first PNG attempt within budget is the result of exactly one
\* attempt).
C2_LossyFirstFitWins ==
    \A r \in RequestIds :
        request[r].ladder = "lossy" =>
            /\ request[r].attempts = request[r].index
            /\ request[r].index \in 1..15
            /\ request[r].pc = "awaiting" =>
                  /\ request[r].firstFit = None
                  /\ request[r].pending[1].type = LossyOrderType(request[r].index)
                  /\ request[r].pending[1].quality = LossyOrderQuality(request[r].index)
            /\ request[r].firstFit # None =>
                  /\ request[r].pc = "returned"
                  /\ request[r].result = request[r].firstFit
                  /\ request[r].attempts = request[r].firstFit[1].attempt
                  /\ request[r].result[1].type =
                        LossyOrderType(request[r].result[1].attempt)
                  /\ request[r].result[1].quality =
                        LossyOrderQuality(request[r].result[1].attempt)

\* The JPEG 0.90 attempt is the first within budget, after two blobs over
\* budget, and is returned after exactly three attempts.
C2_Witness ==
    \E r \in RequestIds :
        /\ request[r].ladder = "lossy"
        /\ request[r].pc = "returned"
        /\ request[r].result[1].quality = Some(90)
        /\ request[r].result[1].size = request[r].maxBytes
        /\ request[r].produced = 3
        /\ request[r].attempts = 3

\* C3: a lossy ladder in which no attempt produced a blob within budget ends
\* after all 15 attempts; it returns the blob of the last attempt that
\* produced one (over budget), and throws only when none of the 15 did.
C3_LossyFallbackIsLastProduced ==
    \A r \in RequestIds :
        (request[r].ladder = "lossy" /\ Finished(request[r])
            /\ request[r].firstFit = None) =>
            /\ request[r].attempts = 15
            /\ request[r].produced = 0 <=> request[r].pc = "threw"
            /\ request[r].pc = "threw" => request[r].error = "EncodeExhausted"
            /\ request[r].pc = "returned" =>
                  /\ request[r].result = request[r].lastProduced
                  /\ request[r].result[1].size > request[r].maxBytes

\* The fallback is the blob of attempt 14, the 15th having produced nothing,
\* and differs in size from an earlier blob.
C3_Witness ==
    \E r \in RequestIds :
        /\ request[r].ladder = "lossy"
        /\ request[r].pc = "returned"
        /\ request[r].firstFit = None
        /\ request[r].result[1].attempt = 14
        /\ request[r].produced = 2
        /\ request[r].result[1].size = request[r].maxBytes + 1

\* C4: the lossless ladder quantizes in the order 0, 8, ..., 192 and returns
\* the blob of the first step whose blob is within maxBytes, issuing no
\* further attempt; when no step's blob is within budget it makes all 14
\* attempts and fails with BudgetUnattainable, returning no blob.
C4_PngFirstFitOrFail ==
    \A r \in RequestIds :
        request[r].ladder = "png" =>
            /\ request[r].attempts = request[r].index
            /\ request[r].index \in 1..14
            /\ request[r].pc = "awaiting" =>
                  /\ request[r].firstFit = None
                  /\ request[r].pending[1].type = "image/png"
                  /\ request[r].pending[1].bitmap =
                        QuantizeColors(request[r].baseAtCapture,
                                       PngOrder[request[r].index])
            /\ request[r].pc = "returned" =>
                  /\ request[r].result = request[r].firstFit
                  /\ request[r].result[1].size <= request[r].maxBytes
                  /\ request[r].attempts = request[r].result[1].attempt
                  /\ request[r].result[1].bitmap =
                        QuantizeColors(request[r].baseAtCapture,
                                       PngOrder[request[r].result[1].attempt])
            /\ request[r].firstFit # None => request[r].pc = "returned"
            /\ (Finished(request[r]) /\ request[r].firstFit = None) =>
                  /\ request[r].pc = "threw"
                  /\ request[r].error = "BudgetUnattainable"
                  /\ request[r].attempts = 14

\* The lossless ladder fails after 14 attempts that produced blobs, all over
\* budget.
C4_Witness ==
    \E r \in RequestIds :
        /\ request[r].ladder = "png"
        /\ request[r].pc = "threw"
        /\ request[r].produced = 14
        /\ request[r].attempts = 14
        /\ request[r].candidate # None
        /\ request[r].candidate[1].size > request[r].maxBytes

\* C5: a ladder (lossy or lossless) whose every attempt produced no output
\* fails with EncodeExhausted; BudgetUnattainable is reported only when the
\* lossless ladder produced blobs and none was within maxBytes.
C5_AllNullIsEncodeExhausted ==
    \A r \in RequestIds :
        (request[r].pc = "threw" /\ request[r].ladder # "none") =>
            /\ request[r].produced = 0 => request[r].error = "EncodeExhausted"
            /\ request[r].error = "BudgetUnattainable" =>
                  (request[r].ladder = "png" /\ request[r].produced > 0)

\* Sample v rounded to the nearest multiple of step (halves up), clamped to 255.
IsNearestMultiple(value, v, step) ==
    \E k \in 0..256 :
        /\ 2 * k * step - step <= 2 * v
        /\ 2 * v < 2 * k * step + step
        /\ value = Min(255, k * step)

\* data is base with every colour sample quantized once at step, alpha kept.
IsQuantizedOnce(data, base, step) ==
    /\ Len(data) = Len(base)
    /\ \A i \in 1..Len(base) :
          IF i % 4 = 0 \/ step = 0 THEN data[i] = base[i]
          ELSE IsNearestMultiple(data[i], base[i], step)

\* C10: throughout the lossless ladder the base buffer captured before the
\* ladder is unmodified; at every encode attempt the canvas, and the bitmap
\* handed to the encoder, is that base quantized once at the current step
\* (step 0: the base itself; alpha is the base's); and when the ladder
\* returns, the canvas holds the pixels the returned blob encodes.
C10_PngCanvasIsBaseQuantizedOnce ==
    \A r \in RequestIds :
        request[r].ladder = "png" =>
            /\ request[r].baseImageData = request[r].baseAtCapture
            /\ request[r].pc = "awaiting" =>
                  /\ request[r].pending[1].bitmap = canvas[request[r].canvasId]
                  /\ IsQuantizedOnce(canvas[request[r].canvasId],
                                     request[r].baseAtCapture,
                                     PngOrder[request[r].index])
            /\ request[r].pc = "returned" =>
                  /\ request[r].result[1].bitmap = canvas[request[r].canvasId]
                  /\ IsQuantizedOnce(canvas[request[r].canvasId],
                                     request[r].baseAtCapture,
                                     PngOrder[request[r].result[1].attempt])

\* The third attempt (step 16) of a ladder whose base has a sample 20: the
\* canvas holds 16 there (20 quantized at 8 and then at 16 would be 32).
C10_Witness ==
    \E r \in RequestIds :
        /\ request[r].ladder = "png"
        /\ request[r].pc = "awaiting"
        /\ request[r].index = 3
        /\ request[r].produced = 2
        /\ request[r].baseAtCapture[1] = 20
        /\ canvas[request[r].canvasId][1] = 16
        /\ QuantizeSample(QuantizeSample(20, 8), 16) = 32

(***************************************************************************)
(* The claim about concurrent requests (SpecConc)                          *)
(***************************************************************************)
\* A request run to its end on a canvas of its own, nothing else running.
RECURSIVE RunAlone(_)
RunAlone(step) ==
    IF step.request.pc # "awaiting" THEN step.request
    ELSE RunAlone(Resume(step.request, step.canvas,
                         Resolved(step.request,
                                  CHOOSE outcome \in
                                      EncodeOutcomes(step.request.pending[1]) : TRUE)))

\* What a call returns or throws.
Outcome(rq) == [pc |-> rq.pc, result |-> rq.result, error |-> rq.error]

\* What request r returns or throws when it is the only request.
AloneOutcome(r) ==
    Outcome(RunAlone(RenderStart(
        NewRequest("idle", request[r].canvasId, request[r].ctxOk,
                   request[r].image, request[r].options),
        EmptyCache)))

\* C6: two requests interleaved at their encode suspension points each
\* return or throw what they would when run alone, and a cached halftone
\* pattern is the one its shape determines, whichever request cached it.
C6_ConcurrentSameAsAlone ==
    /\ \A r \in RequestIds :
          Finished(request[r]) => Outcome(request[r]) = AloneOutcome(r)
    /\ \A w \in 1..CanvasWidth, h \in 1..CanvasHeight :
          PatternKey(w, h) \in DOMAIN halftonePatternCache =>
              halftonePatternCache[PatternKey(w, h)] = ComputePattern(w, h)

\* What does hold: the same for requests that were given different canvases,
\* and for every request of the lossless ladder.
ConcurrentSameAsAloneOnOwnCanvas ==
    \A r \in RequestIds :
        (Finished(request[r])
            /\ (request[r].ladder = "png"
                \/ \A q \in RequestIds \ {r} : request[q].canvasId # request[r].canvasId))
        => Outcome(request[r]) = AloneOutcome(r)

=============================================================================
